---- MODULE Spec2Model ----
(***************************************************************************)
(* Media platform backend: streaming-token registry, view log, analytics   *)
(* aggregation with a Redis cache-aside layer, and the view-logging rate   *)
(* limiter.  Every request handler is an async function; each `await` is a *)
(* point where other handlers, the reap timer and the clock may run.  An   *)
(* action of this module is the effect of one awaited call together with   *)
(* the synchronous code that follows it up to the next await.              *)
(* Time is counted in minutes.                                             *)
(***************************************************************************)
EXTENDS Integers, Sequences, FiniteSets, TLC

\* ---- bounds of the model ----
MaxTime == 15
MaxViews == 1
MaxTokens == 2
MaxLog == 2
MaxHits == 15
MaxAuth == 6
MaxOver == 2

\* ---- program constants (minutes) ----
TokenTTL == 10
CacheTTL == 5
ReapInterval == 5
ViewWindow == 1
ViewMax == 10
AuthWindow == 15
AuthMax == 5
MinPassword == 6
RecentLimit == 10
HistogramDays == 30
MinutesPerDay == 1440
MsPerMinute == 60000
GeneralWindow == 15
GeneralMax == 100

Handlers == {1, 2}
IPs == {"a", "b"}
MediaIds == {1, 2, 3}
StoredMedia == {1, 2}
TokenIds == 1..MaxTokens
NoToken == 0
Creds == {"none", "invalid", "valid"}
TickSteps == {ReapInterval}
StartTimes == {0, 1}
Watched == {1, 3}
OneMedia == {1}
OneIP == {"a"}

None == [none |-> TRUE]
Emails == {"admin@site.io"}
\* the body of a client that signs up and logs in with one password
OneBody == [email : Emails, password : {"secret1"}]
\* the bodies of a client that tries two passwords
TwoBodies == [email : Emails, password : {"secret1", "secret2"}]

VARIABLES
  now,              \* server clock
  nextReap,         \* due time of the setInterval cleanup
  MediaAsset,       \* ids of the rows of table MediaAsset
  MediaViewLog,     \* rows of table MediaViewLog, in rowid order
  streamingTokens,  \* the in-memory Map token -> {mediaId, expiresAt, clientIP}
  uuidCount,        \* number of uuids generated so far
  redisClient,      \* TRUE iff the Redis client was connected at start-up
  redis,            \* Redis keyspace: media id -> None or [data, expireAt]
  viewHits,         \* store of viewLoggingLimiter: key -> None or [count, resetTime]
  req,              \* per handler slot: the request, its position and its locals
  out,              \* the response sent by the step just taken (Idle if none),
                    \* with the request it answers
  minted,           \* every streamingTokens.set so far, in order (history)
  acked,            \* media id -> position (among that media's rows) of the
                    \* latest view event whose request has been answered
  nview,            \* POST /media/:id/view requests received so far
  redisReady,       \* TRUE iff Redis answers the commands sent to it
  hits,             \* limiter key -> view requests [arrived, admitted] of the
                    \* current window, and whether an earlier window of the
                    \* key refused one (history)
  authHits,         \* store of authLimiter: ip -> None or [count, resetTime]
  authAdmits,       \* the requests authLimiter let through, in order: source,
                    \* time and end of the limiter window (history)
  AdminUser,        \* table AdminUser: email -> None or [id, email, hashed_password]
  generalHits,      \* store of generalLimiter: ip -> None or [count, resetTime]
  computedAt        \* media id -> time at which the queries of the snapshot last
                    \* stored for it began (history)

vars == <<now, nextReap, MediaAsset, MediaViewLog, streamingTokens, uuidCount,
          redisClient, redis, viewHits, req, out, minted, acked, nview,
          redisReady, hits, authHits, authAdmits, AdminUser, generalHits, computedAt>>

\* ---- helpers ----
Max(a, b) == IF a >= b THEN a ELSE b
Min(a, b) == IF a <= b THEN a ELSE b

\* rows of MediaViewLog WHERE media_id = id (as rowids)
RowsOf(log, id) == {i \in DOMAIN log : log[i].media_id = id}

EmptySnapshot == [total_views |-> 0, unique_ips |-> 0,
                  views_per_day |-> <<>>, recent_views |-> <<>>]

Idle == [kind |-> "idle", pc |-> "idle", id |-> 0, ip |-> "a", cred |-> "none",
         token |-> NoToken, tokenData |-> None, at |-> 0, media |-> FALSE,
         newToken |-> NoToken, expiresAt |-> 0, del |-> 0,
         seq |-> 0, seen |-> 0, data |-> EmptySnapshot,
         status |-> 0, body |-> "", cached |-> FALSE, prior |-> None,
         email |-> "", password |-> "", user |-> None, list |-> {},
         retryAfter |-> 0, jwt |-> None, err |-> None,
         path |-> "", suspicious |-> FALSE, stage |-> 0, ran |-> <<>>,
         rateLimit |-> None]

\* a request that has just been routed to its handler
NewRequest(kind, id, ip) == [Idle EXCEPT !.kind = kind, !.id = id, !.ip = ip]

\* res.status(s).json({... b ...}) ends the request
Respond(r, st, b) == [r EXCEPT !.pc = "done", !.status = st, !.body = b]

\* a slot that holds no request in progress
Free(h) == req[h].pc = "idle"

\* handler h goes on with locals r / sends response r and ends
Continue(h, r) == req' = [req EXCEPT ![h] = r] /\ out' = Idle
Finish(h, r) == req' = [req EXCEPT ![h] = Idle] /\ out' = r

\* the slot a newly arrived request is given
Accepts(h) == Free(h) /\ \A g \in Handlers : g < h => ~Free(g)

\* ---- config/redis ----
\* variant: one key for the analytics of every object
generateAnalyticsCacheKey_Shared(mediaId) == CHOOSE k \in StoredMedia : TRUE

\* `analytics:media:${mediaId}`: one key per id, named here by the id
generateAnalyticsCacheKey(mediaId) == mediaId

\* what an awaited call hands to the catch block of its caller
Thrown == [thrown |-> TRUE]

\* variant: without the try/catch, an error of Redis reaches the caller
getCachedData_Throws(key) ==
  IF ~redisClient THEN None
  ELSE IF ~redisReady THEN Thrown
  ELSE IF redis[key] # None /\ now < redis[key].expireAt THEN redis[key].data
  ELSE None

getCachedData(key) ==
  IF ~redisClient THEN None
  ELSE IF ~redisReady THEN None
  ELSE IF redis[key] # None /\ now < redis[key].expireAt THEN redis[key].data
  ELSE None

\* variant: the entry is kept for twice the time asked for
setCachedData_Doubled(key, data, ttl) ==
  IF ~redisClient \/ ~redisReady THEN redis
  ELSE [redis EXCEPT ![key] = [data |-> data, expireAt |-> now + 2 * ttl]]

setCachedData(key, data, ttl) ==
  IF ~redisClient \/ ~redisReady THEN redis
  ELSE [redis EXCEPT ![key] = [data |-> data, expireAt |-> now + ttl]]

deleteCachedData(key) ==
  IF ~redisClient \/ ~redisReady THEN redis
  ELSE [redis EXCEPT ![key] = None]

\* variant: the cache is left as it is
invalidateAnalyticsCache_Skipped(mediaId) == redis

invalidateAnalyticsCache(mediaId) ==
  deleteCachedData(generateAnalyticsCacheKey(mediaId))

\* the reply of Redis to DEL: the number of keys it removed
DelReply(key) == IF redisClient /\ redisReady /\ redis[key] # None THEN 1 ELSE 0

\* ---- config/database ----
\* variant: every id is taken to exist
MediaExists_Always(id) == TRUE

\* variant: the id is only checked to be well-formed
MediaExists_AnyValidId(id) == id \in MediaIds

\* SELECT ... FROM MediaAsset WHERE id = ? returns a row
MediaExists(id) == id \in MediaAsset

\* ---- middleware/rateLimit: the handler of a refused request ----
\* Math.ceil(a / b) for a >= 0, b > 0
Ceil(a, b) == (a + b - 1) \div b

\* retryAfter: Math.ceil(req.rateLimit.resetTime / 1000), where resetTime is
\* the Date (milliseconds) at which the window of the key ends
retryAfter(resetTime) == Ceil(resetTime * MsPerMinute, 1000)

\* ---- middleware/auth ----
\* variant: a token that fails jwt.verify is let through
authenticateToken_Open(cred) ==
  IF cred = "none" THEN [status |-> 401, error |-> "Access denied. No token provided."]
  ELSE None

\* the answer of authenticateToken, or None when it calls next()
authenticateToken(cred) ==
  IF cred = "none" THEN [status |-> 401, error |-> "Access denied. No token provided."]
  ELSE IF cred = "invalid" THEN [status |-> 403, error |-> "Invalid token."]
  ELSE None

\* ---- middleware/rateLimit: viewLoggingLimiter ----
\* the number of requests a client sends in one go
RapidRequests == 15

\* no request of a key has arrived in the current window, and none was refused
\* in an earlier one
NoHits == [arrived |-> 0, admitted |-> 0, earlier |-> FALSE]

\* variant: the key is the source address alone
keyGenerator_IPOnly(ip, id) == <<ip, CHOOSE i \in MediaIds : TRUE>>

keyGenerator(ip, id) == <<ip, id>>

\* variant: a count that has reached the limit starts again
viewLoggingHit_Wraps(key) ==
  IF viewHits[key] = None \/ now >= viewHits[key].resetTime
     \/ viewHits[key].count >= ViewMax
  THEN [count |-> 1, resetTime |-> now + ViewWindow]
  ELSE [viewHits[key] EXCEPT !.count = @ + 1]

\* variant: a hit that arrives while another request of the key is in progress
\* writes back the count it read before that request was counted
viewLoggingHit_LostUpdate(key) ==
  IF viewHits[key] = None \/ now >= viewHits[key].resetTime
  THEN [count |-> 1, resetTime |-> now + ViewWindow]
  ELSE IF \E g \in Handlers : /\ req[g].kind = "view"
                                /\ <<req[g].ip, req[g].id>> = key
       THEN viewHits[key]
       ELSE [viewHits[key] EXCEPT !.count = @ + 1]

\* the hit record of a key after counting one more request at the current time
viewLoggingHit(key) ==
  IF viewHits[key] = None \/ now >= viewHits[key].resetTime
  THEN [count |-> 1, resetTime |-> now + ViewWindow]
  ELSE [viewHits[key] EXCEPT !.count = @ + 1]

\* variant: the row is written twice
InsertViewLog_Twice(mediaId, clientIP) ==
  MediaViewLog \o << [media_id |-> mediaId, viewed_by_ip |-> clientIP, timestamp |-> now],
                     [media_id |-> mediaId, viewed_by_ip |-> clientIP, timestamp |-> now] >>

\* the INSERT INTO MediaViewLog of both write paths
InsertViewLog(mediaId, clientIP) ==
  Append(MediaViewLog, [media_id |-> mediaId, viewed_by_ip |-> clientIP,
                        timestamp |-> now])

\* requests in progress that have not yet reached their INSERT
Writers == {h \in Handlers : req[h].pc \in {"view_exists", "view_insert",
                                             "mint_exists", "mint_insert"}}

\* the view log has room for the INSERT of one more request
LogHasRoom == Len(MediaViewLog) + Cardinality(Writers) < MaxLog

\* ---- POST /media/:id/view ----
\* variant: the limiter answers 429 and the view is logged all the same
RecordViewArrive_Through(h, id, ip) ==
  /\ Accepts(h)
  /\ LogHasRoom
  /\ nview' = nview + 1
  /\ LET key == keyGenerator(ip, id)
         hit == viewLoggingHit(key)
         r   == NewRequest("view", id, ip)
     IN IF hit.count > ViewMax
        THEN /\ \E counted \in BOOLEAN :
                  viewHits' = IF counted THEN [viewHits EXCEPT ![key] = hit]
                              ELSE viewHits
             /\ hits' = [hits EXCEPT ![<<ip, id>>].arrived = @ + 1]
             /\ MediaViewLog' = InsertViewLog(id, ip)
             /\ Finish(h, [Respond(r, 429, "Too many view logs")
                             EXCEPT !.retryAfter = retryAfter(hit.resetTime)])
        ELSE /\ viewHits' = [viewHits EXCEPT ![key] = hit]
             /\ hits' = [hits EXCEPT ![<<ip, id>>].arrived = @ + 1,
                                     ![<<ip, id>>].admitted = @ + 1]
             /\ MediaViewLog' = MediaViewLog
             /\ Continue(h, [r EXCEPT !.pc = "view_exists"])
  /\ UNCHANGED <<now, nextReap, MediaAsset, streamingTokens,
                 uuidCount, redisClient, redis, minted, acked,
                 redisReady, authHits, authAdmits, AdminUser, generalHits, computedAt>>

\* viewLoggingLimiter, then the handler's first query is issued
\* a request over the limit is refused by the limiter's handler; whether the
\* store has counted it is the limiter library's business and is left open
RecordViewArrive(h, id, ip) ==
  /\ Accepts(h)
  /\ LogHasRoom
  /\ nview' = nview + 1
  /\ LET key == keyGenerator(ip, id)
         hit == viewLoggingHit(key)
         r   == NewRequest("view", id, ip)
     IN IF hit.count > ViewMax
        THEN /\ \E counted \in BOOLEAN :
                  viewHits' = IF counted THEN [viewHits EXCEPT ![key] = hit]
                              ELSE viewHits
             /\ hits' = [hits EXCEPT ![<<ip, id>>].arrived = @ + 1]
             /\ Finish(h, [Respond(r, 429, "Too many view logs")
                             EXCEPT !.retryAfter = retryAfter(hit.resetTime)])
        ELSE /\ viewHits' = [viewHits EXCEPT ![key] = hit]
             /\ hits' = [hits EXCEPT ![<<ip, id>>].arrived = @ + 1,
                                     ![<<ip, id>>].admitted = @ + 1]
             /\ Continue(h, [r EXCEPT !.pc = "view_exists"])
  /\ UNCHANGED <<now, nextReap, MediaAsset, MediaViewLog, streamingTokens,
                 uuidCount, redisClient, redis, minted, acked,
                 redisReady, authHits, authAdmits, AdminUser, generalHits, computedAt>>

RecordViewStart(h, id, ip) ==
  /\ nview < MaxViews
  /\ RecordViewArrive(h, id, ip)

\* one of a burst of requests
RecordViewBurst(h, id, ip) ==
  /\ nview < MaxHits
  /\ RecordViewArrive(h, id, ip)

RecordViewExists(h) ==
  /\ req[h].pc = "view_exists"
  /\ IF MediaExists(req[h].id)
     THEN Continue(h, [req[h] EXCEPT !.media = TRUE, !.pc = "view_insert"])
     ELSE Finish(h, Respond(req[h], 404, "Media not found"))
  /\ UNCHANGED <<now, nextReap, MediaAsset, MediaViewLog, streamingTokens,
                 uuidCount, redisClient, redis, viewHits, minted, acked, nview,
                 redisReady, hits, authHits, authAdmits, AdminUser, generalHits, computedAt>>

RecordViewInsert(h) ==
  /\ req[h].pc = "view_insert"
  /\ MediaViewLog' = InsertViewLog(req[h].id, req[h].ip)
  /\ Continue(h, [req[h] EXCEPT !.pc = "view_invalidate",
                                !.seq = Cardinality(RowsOf(MediaViewLog', req[h].id))])
  /\ UNCHANGED <<now, nextReap, MediaAsset, streamingTokens, uuidCount,
                 redisClient, redis, viewHits, minted, acked, nview,
                 redisReady, hits, authHits, authAdmits, AdminUser, generalHits, computedAt>>

RecordViewInvalidate(h) ==
  /\ req[h].pc = "view_invalidate"
  /\ redis' = invalidateAnalyticsCache(req[h].id)
  /\ Continue(h, [req[h] EXCEPT !.pc = "view_respond",
                                !.del = DelReply(generateAnalyticsCacheKey(req[h].id))])
  /\ UNCHANGED <<now, nextReap, MediaAsset, MediaViewLog, streamingTokens,
                 uuidCount, redisClient, viewHits, minted, acked, nview,
                 redisReady, hits, authHits, authAdmits, AdminUser, generalHits, computedAt>>

RecordViewRespond(h) ==
  /\ req[h].pc = "view_respond"
  /\ Finish(h, Respond(req[h], 201, "View logged successfully"))
  /\ acked' = [acked EXCEPT ![req[h].id] = Max(@, req[h].seq)]
  /\ UNCHANGED <<now, nextReap, MediaAsset, MediaViewLog, streamingTokens,
                 uuidCount, redisClient, redis, viewHits, minted, nview,
                 redisReady, hits, authHits, authAdmits, AdminUser, generalHits, computedAt>>

\* ---- GET /media/:id/analytics ----
\* variant: the WHERE clause is missing
TotalViews_AllObjects(log, id) == Len(log)

\* SELECT COUNT(*) ... WHERE media_id = ?
TotalViews(log, id) == Cardinality(RowsOf(log, id))

\* SELECT COUNT(DISTINCT viewed_by_ip) ... WHERE media_id = ?
UniqueIPs(log, id) == Cardinality({log[i].viewed_by_ip : i \in RowsOf(log, id)})

\* DATE(timestamp)
DateOf(ts) == ts \div MinutesPerDay

\* variant: the 30-day condition is missing
ViewsPerDay_NoWindow(log, id) ==
  LET rows == RowsOf(log, id)
  IN [d \in {DateOf(log[i].timestamp) : i \in rows} |->
        Cardinality({i \in rows : DateOf(log[i].timestamp) = d})]

\* SELECT DATE(timestamp), COUNT(*) ... AND timestamp >= DATE('now','-30 days')
\* GROUP BY DATE(timestamp), folded into the views_per_day object
ViewsPerDay(log, id) ==
  LET rows == {i \in RowsOf(log, id) :
                 DateOf(log[i].timestamp) >= DateOf(now) - HistogramDays}
  IN [d \in {DateOf(log[i].timestamp) : i \in rows} |->
        Cardinality({i \in rows : DateOf(log[i].timestamp) = d})]

\* rowids of S from the latest to the earliest; the clock never goes back, so
\* this is ORDER BY timestamp DESC
RECURSIVE Descending(_)
Descending(S) ==
  IF S = {} THEN <<>>
  ELSE LET m == CHOOSE i \in S : \A j \in S : j <= i
       IN <<m>> \o Descending(S \ {m})

\* SELECT viewed_by_ip, timestamp ... ORDER BY timestamp DESC LIMIT 10,
\* mapped to {ip, timestamp}
RecentViews(log, id) ==
  LET d == Descending(RowsOf(log, id))
  IN [k \in 1..Min(Len(d), RecentLimit) |->
        [ip |-> log[d[k]].viewed_by_ip, timestamp |-> log[d[k]].timestamp]]

\* middleware/auth authenticateToken, then the handler's first query is issued;
\* prior is what the client remembers of its previous call
GetAnalyticsArrive(h, id, cred, prior) ==
  /\ Accepts(h)
  /\ LET r == [NewRequest("analytics", id, "a") EXCEPT
                  !.cred = cred, !.seen = acked[id], !.prior = prior]
         denied == authenticateToken(cred)
     IN IF denied # None
        THEN Finish(h, Respond(r, denied.status, denied.error))
        ELSE Continue(h, [r EXCEPT !.pc = "an_exists"])
  /\ UNCHANGED <<now, nextReap, MediaAsset, MediaViewLog, streamingTokens,
                 uuidCount, redisClient, redis, viewHits, minted, acked, nview,
                 redisReady, hits, authHits, authAdmits, AdminUser, generalHits, computedAt>>

GetAnalyticsExists(h) ==
  /\ req[h].pc = "an_exists"
  /\ IF MediaExists(req[h].id)
     THEN Continue(h, [req[h] EXCEPT !.media = TRUE, !.pc = "an_cache"])
     ELSE Finish(h, Respond(req[h], 404, "Media not found"))
  /\ UNCHANGED <<now, nextReap, MediaAsset, MediaViewLog, streamingTokens,
                 uuidCount, redisClient, redis, viewHits, minted, acked, nview,
                 redisReady, hits, authHits, authAdmits, AdminUser, generalHits, computedAt>>

GetAnalyticsCacheGet(h) ==
  /\ req[h].pc = "an_cache"
  /\ LET cachedData == getCachedData(generateAnalyticsCacheKey(req[h].id))
     IN IF cachedData = Thrown
        THEN Finish(h, Respond(req[h], 500, "Failed to retrieve analytics"))
        ELSE IF cachedData # None
        THEN Finish(h, [Respond(req[h], 200, "Analytics retrieved successfully (cached)")
                          EXCEPT !.data = cachedData, !.cached = TRUE])
        ELSE Continue(h, [req[h] EXCEPT !.pc = "an_total"])
  /\ UNCHANGED <<now, nextReap, MediaAsset, MediaViewLog, streamingTokens,
                 uuidCount, redisClient, redis, viewHits, minted, acked, nview,
                 redisReady, hits, authHits, authAdmits, AdminUser, generalHits, computedAt>>

GetAnalyticsTotal(h) ==
  /\ req[h].pc = "an_total"
  /\ Continue(h, [req[h] EXCEPT !.pc = "an_unique", !.at = now,
                     !.data.total_views = TotalViews(MediaViewLog, req[h].id)])
  /\ UNCHANGED <<now, nextReap, MediaAsset, MediaViewLog, streamingTokens,
                 uuidCount, redisClient, redis, viewHits, minted, acked, nview,
                 redisReady, hits, authHits, authAdmits, AdminUser, generalHits, computedAt>>

GetAnalyticsUnique(h) ==
  /\ req[h].pc = "an_unique"
  /\ Continue(h, [req[h] EXCEPT !.pc = "an_perday",
                     !.data.unique_ips = UniqueIPs(MediaViewLog, req[h].id)])
  /\ UNCHANGED <<now, nextReap, MediaAsset, MediaViewLog, streamingTokens,
                 uuidCount, redisClient, redis, viewHits, minted, acked, nview,
                 redisReady, hits, authHits, authAdmits, AdminUser, generalHits, computedAt>>

GetAnalyticsPerDay(h) ==
  /\ req[h].pc = "an_perday"
  /\ Continue(h, [req[h] EXCEPT !.pc = "an_recent",
                     !.data.views_per_day = ViewsPerDay(MediaViewLog, req[h].id)])
  /\ UNCHANGED <<now, nextReap, MediaAsset, MediaViewLog, streamingTokens,
                 uuidCount, redisClient, redis, viewHits, minted, acked, nview,
                 redisReady, hits, authHits, authAdmits, AdminUser, generalHits, computedAt>>

GetAnalyticsRecent(h) ==
  /\ req[h].pc = "an_recent"
  /\ Continue(h, [req[h] EXCEPT !.pc = "an_store",
                     !.data.recent_views = RecentViews(MediaViewLog, req[h].id)])
  /\ UNCHANGED <<now, nextReap, MediaAsset, MediaViewLog, streamingTokens,
                 uuidCount, redisClient, redis, viewHits, minted, acked, nview,
                 redisReady, hits, authHits, authAdmits, AdminUser, generalHits, computedAt>>

\* setCachedData(cacheKey, analyticsData, 300), then the response
GetAnalyticsStore(h) ==
  /\ req[h].pc = "an_store"
  /\ redis' = setCachedData(generateAnalyticsCacheKey(req[h].id), req[h].data, CacheTTL)
  /\ computedAt' = IF redisClient /\ redisReady
                   THEN [computedAt EXCEPT ![req[h].id] = req[h].at]
                   ELSE computedAt
  /\ Finish(h, Respond(req[h], 200, "Analytics retrieved successfully"))
  /\ UNCHANGED <<now, nextReap, MediaAsset, MediaViewLog, streamingTokens,
                 uuidCount, redisClient, viewHits, minted, acked, nview,
                 redisReady, hits, authHits, authAdmits, AdminUser, generalHits>>

\* ---- GET /media ----
ListMediaStart(h, cred) ==
  /\ Accepts(h)
  /\ LET r == [NewRequest("list", 0, "a") EXCEPT !.cred = cred]
         denied == authenticateToken(cred)
     IN IF denied # None
        THEN Finish(h, Respond(r, denied.status, denied.error))
        ELSE Continue(h, [r EXCEPT !.pc = "list_all"])
  /\ UNCHANGED <<now, nextReap, MediaAsset, MediaViewLog, streamingTokens,
                 uuidCount, redisClient, redis, viewHits, minted, acked, nview,
                 redisReady, hits, authHits, authAdmits, AdminUser, generalHits, computedAt>>

\* SELECT ... FROM MediaAsset ORDER BY created_at DESC
ListMediaAll(h) ==
  /\ req[h].pc = "list_all"
  /\ Finish(h, [Respond(req[h], 200, "Media list retrieved successfully")
                  EXCEPT !.list = MediaAsset])
  /\ UNCHANGED <<now, nextReap, MediaAsset, MediaViewLog, streamingTokens,
                 uuidCount, redisClient, redis, viewHits, minted, acked, nview,
                 redisReady, hits, authHits, authAdmits, AdminUser, generalHits, computedAt>>

\* ---- GET /media/:id/stream-url ----
\* variant: a generator that returns its previous value again
uuidv4_Repeating == IF uuidCount = 0 THEN 1 ELSE uuidCount

\* uuidv4(): a token id that was never generated before
uuidv4 == uuidCount + 1

IssueCapabilityStart(h, id, ip) ==
  /\ Accepts(h)
  /\ uuidCount + Cardinality({g \in Handlers : req[g].pc = "mint_exists"}) < MaxTokens
  /\ LogHasRoom
  /\ Continue(h, [NewRequest("mint", id, ip) EXCEPT !.pc = "mint_exists"])
  /\ UNCHANGED <<now, nextReap, MediaAsset, MediaViewLog, streamingTokens,
                 uuidCount, redisClient, redis, viewHits, minted, acked, nview,
                 redisReady, hits, authHits, authAdmits, AdminUser, generalHits, computedAt>>

\* the Map after streamingTokens.set(token, tokenData)
SetToken(token, tokenData) ==
  [t \in DOMAIN streamingTokens \cup {token} |->
     IF t = token THEN tokenData ELSE streamingTokens[t]]

\* the existence check and, for an existing object, streamingTokens.set(...)
IssueCapabilityExists(h) ==
  /\ req[h].pc = "mint_exists"
  /\ IF MediaExists(req[h].id)
     THEN LET streamingToken == uuidv4
              expiresAt == now + TokenTTL
          IN /\ uuidCount' = uuidCount + 1
             /\ streamingTokens' =
                  SetToken(streamingToken,
                           [mediaId |-> req[h].id, expiresAt |-> expiresAt,
                            clientIP |-> req[h].ip])
             /\ minted' = Append(minted,
                                  [token |-> streamingToken, mediaId |-> req[h].id,
                                   expiresAt |-> expiresAt, clientIP |-> req[h].ip])
             /\ Continue(h, [req[h] EXCEPT !.media = TRUE, !.pc = "mint_insert",
                                           !.newToken = streamingToken,
                                           !.expiresAt = expiresAt])
     ELSE /\ Finish(h, Respond(req[h], 404, "Media not found"))
          /\ UNCHANGED <<uuidCount, streamingTokens, minted>>
  /\ UNCHANGED <<now, nextReap, MediaAsset, MediaViewLog, redisClient, redis,
                 viewHits, acked, nview,
                 redisReady, hits, authHits, authAdmits, AdminUser, generalHits, computedAt>>

IssueCapabilityInsert(h) ==
  /\ req[h].pc = "mint_insert"
  /\ MediaViewLog' = InsertViewLog(req[h].id, req[h].ip)
  /\ Continue(h, [req[h] EXCEPT !.pc = "mint_invalidate",
                                !.seq = Cardinality(RowsOf(MediaViewLog', req[h].id))])
  /\ UNCHANGED <<now, nextReap, MediaAsset, streamingTokens, uuidCount,
                 redisClient, redis, viewHits, minted, acked, nview,
                 redisReady, hits, authHits, authAdmits, AdminUser, generalHits, computedAt>>

IssueCapabilityInvalidate(h) ==
  /\ req[h].pc = "mint_invalidate"
  /\ redis' = invalidateAnalyticsCache(req[h].id)
  /\ Continue(h, [req[h] EXCEPT !.pc = "mint_respond",
                                !.del = DelReply(generateAnalyticsCacheKey(req[h].id))])
  /\ UNCHANGED <<now, nextReap, MediaAsset, MediaViewLog, streamingTokens,
                 uuidCount, redisClient, viewHits, minted, acked, nview,
                 redisReady, hits, authHits, authAdmits, AdminUser, generalHits, computedAt>>

IssueCapabilityRespond(h) ==
  /\ req[h].pc = "mint_respond"
  /\ Finish(h, Respond(req[h], 200, "Secure streaming URL generated"))
  /\ acked' = [acked EXCEPT ![req[h].id] = Max(@, req[h].seq)]
  /\ UNCHANGED <<now, nextReap, MediaAsset, MediaViewLog, streamingTokens,
                 uuidCount, redisClient, redis, viewHits, minted, nview,
                 redisReady, hits, authHits, authAdmits, AdminUser, generalHits, computedAt>>

\* ---- GET /media/:id/stream ----
\* new Date() > tokenData.expiresAt
Expired(tokenData) == now > tokenData.expiresAt

\* the Map after streamingTokens.delete for every token of D
DeleteTokens(D) == [t \in DOMAIN streamingTokens \ D |-> streamingTokens[t]]

\* streamingTokens.get(token)
GetToken(token) ==
  IF token \in DOMAIN streamingTokens THEN streamingTokens[token] ELSE None

\* variant: the object bound to the token is not compared
TokenCheck_NoMismatch(token, tokenData, mediaId) ==
  IF token = NoToken THEN "Streaming token required"
  ELSE IF tokenData = None THEN "Invalid streaming token"
  ELSE IF Expired(tokenData) THEN "Streaming token expired"
  ELSE "ok"

\* variant: a token that is not in the Map is let through
TokenCheck_NoLookup(token, tokenData, mediaId) ==
  IF token = NoToken THEN "Streaming token required"
  ELSE IF tokenData = None THEN "ok"
  ELSE IF Expired(tokenData) THEN "Streaming token expired"
  ELSE IF tokenData.mediaId # mediaId THEN "Invalid streaming token for this media"
  ELSE "ok"

\* the chain of token checks of the handler: the error it answers, or "ok"
TokenCheck(token, tokenData, mediaId) ==
  IF token = NoToken THEN "Streaming token required"
  ELSE IF tokenData = None THEN "Invalid streaming token"
  ELSE IF Expired(tokenData) THEN "Streaming token expired"
  ELSE IF tokenData.mediaId # mediaId THEN "Invalid streaming token for this media"
  ELSE "ok"

\* variant: a token is only honoured for the address it was issued to
RedeemCapabilityArrive_Bound(h, id, token, ip) ==
  /\ Accepts(h)
  /\ LET tokenData == GetToken(token)
         check == IF tokenData # None /\ tokenData.clientIP # ip
                  THEN "Invalid streaming token"
                  ELSE TokenCheck(token, tokenData, id)
         r == [NewRequest("stream", id, ip) EXCEPT !.token = token,
                                                   !.tokenData = tokenData,
                                                   !.at = now]
     IN /\ IF check = "ok"
           THEN Continue(h, [r EXCEPT !.pc = "stream_exists"])
           ELSE Finish(h, Respond(r, 401, check))
        /\ streamingTokens' = IF check = "Streaming token expired"
                              THEN DeleteTokens({token})
                              ELSE streamingTokens
  /\ UNCHANGED <<now, nextReap, MediaAsset, MediaViewLog, uuidCount, redisClient,
                 redis, viewHits, minted, acked, nview,
                 redisReady, hits, authHits, authAdmits, AdminUser, generalHits, computedAt>>

\* the token checks, which run without an await when the request arrives from
\* address ip
RedeemCapabilityArrive(h, id, token, ip) ==
  /\ Accepts(h)
  /\ LET tokenData == GetToken(token)
         check == TokenCheck(token, tokenData, id)
         r == [NewRequest("stream", id, ip) EXCEPT !.token = token,
                                                    !.tokenData = tokenData,
                                                    !.at = now]
     IN /\ IF check = "ok"
           THEN Continue(h, [r EXCEPT !.pc = "stream_exists"])
           ELSE Finish(h, Respond(r, 401, check))
        /\ streamingTokens' = IF check = "Streaming token expired"
                              THEN DeleteTokens({token})
                              ELSE streamingTokens
  /\ UNCHANGED <<now, nextReap, MediaAsset, MediaViewLog, uuidCount, redisClient,
                 redis, viewHits, minted, acked, nview,
                 redisReady, hits, authHits, authAdmits, AdminUser, generalHits, computedAt>>

\* a redeem of the client that the model gives the address "a"
RedeemCapabilityStart(h, id, token) == RedeemCapabilityArrive(h, id, token, "a")

\* variant: serving the file is logged as a view
RedeemCapabilityExists_Logged(h) ==
  /\ req[h].pc = "stream_exists"
  /\ IF MediaExists(req[h].id)
     THEN /\ Finish(h, [Respond(req[h], 200, "file") EXCEPT !.media = TRUE])
          /\ MediaViewLog' = InsertViewLog(req[h].id, req[h].ip)
     ELSE /\ Finish(h, Respond(req[h], 404, "Media not found"))
          /\ MediaViewLog' = MediaViewLog
  /\ UNCHANGED <<now, nextReap, MediaAsset, streamingTokens,
                 uuidCount, redisClient, redis, viewHits, minted, acked, nview,
                 redisReady, hits, authHits, authAdmits, AdminUser, generalHits, computedAt>>

\* the file_url lookup, then res.sendFile
RedeemCapabilityExists(h) ==
  /\ req[h].pc = "stream_exists"
  /\ IF MediaExists(req[h].id)
     THEN Finish(h, [Respond(req[h], 200, "file") EXCEPT !.media = TRUE])
     ELSE Finish(h, Respond(req[h], 404, "Media not found"))
  /\ UNCHANGED <<now, nextReap, MediaAsset, MediaViewLog, streamingTokens,
                 uuidCount, redisClient, redis, viewHits, minted, acked, nview,
                 redisReady, hits, authHits, authAdmits, AdminUser, generalHits, computedAt>>

\* ---- setInterval cleanup, every 5 minutes ----
\* variant: the sweep takes a token one period later
ExpiredTokens_Late ==
  {t \in DOMAIN streamingTokens : now > streamingTokens[t].expiresAt + ReapInterval}

\* variant: the sweep takes every token
ExpiredTokens_All == DOMAIN streamingTokens

ExpiredTokens == {t \in DOMAIN streamingTokens : now > streamingTokens[t].expiresAt}

Reap ==
  /\ now >= nextReap
  /\ streamingTokens' = DeleteTokens(ExpiredTokens)
  /\ nextReap' = nextReap + ReapInterval
  /\ out' = Idle
  /\ UNCHANGED <<now, MediaAsset, MediaViewLog, uuidCount, redisClient, redis,
                 viewHits, req, minted, acked, nview,
                 redisReady, hits, authHits, authAdmits, AdminUser, generalHits, computedAt>>

\* ---- middleware/rateLimit: authLimiter ----
\* variant: the count stops at the limit
authLimiterHit_Saturates(ip) ==
  IF authHits[ip] = None \/ now >= authHits[ip].resetTime
  THEN [count |-> 1, resetTime |-> now + AuthWindow]
  ELSE [authHits[ip] EXCEPT !.count = Min(@ + 1, AuthMax)]

\* the hit record of a source after counting one more request at the current time
authLimiterHit(ip) ==
  IF authHits[ip] = None \/ now >= authHits[ip].resetTime
  THEN [count |-> 1, resetTime |-> now + AuthWindow]
  ELSE [authHits[ip] EXCEPT !.count = @ + 1]

\* the store has room for one more hit of the source in the running window
AuthHasRoom(ip) ==
  IF authHits[ip] = None THEN TRUE
  ELSE IF now >= authHits[ip].resetTime THEN TRUE
  ELSE authHits[ip].count < MaxAuth

\* authLimiter in front of both auth routes: it refuses the request or hands
\* request r to the handler
authLimiter(h, ip, r) ==
  /\ Accepts(h)
  /\ AuthHasRoom(ip)
  /\ LET hit == authLimiterHit(ip)
     IN IF hit.count > AuthMax
        THEN /\ \E counted \in BOOLEAN :
                  authHits' = IF counted THEN [authHits EXCEPT ![ip] = hit]
                              ELSE authHits
             /\ authAdmits' = authAdmits
             /\ Finish(h, [Respond([r EXCEPT !.ip = ip], 429,
                                   "Too many authentication attempts, please try again later.")
                             EXCEPT !.retryAfter = retryAfter(hit.resetTime)])
        ELSE /\ authHits' = [authHits EXCEPT ![ip] = hit]
             /\ authAdmits' = Append(authAdmits, [ip |-> ip, at |-> now,
                                                  resetTime |-> hit.resetTime])
             /\ Continue(h, [r EXCEPT !.ip = ip])
  /\ UNCHANGED <<now, nextReap, MediaAsset, MediaViewLog, streamingTokens,
                 uuidCount, redisClient, redis, viewHits, minted, acked, nview,
                 redisReady, hits, AdminUser, generalHits, computedAt>>

\* ---- server: the middleware chain of the app ----
\* the paths a client asks for, one per mount point
Paths == {"/health", "/auth/login", "/media/1/view"}

\* variant: the request is validated before it is counted
Middleware_ValidateFirst ==
  <<"validateRequest", "generalLimiter", "express.json", "route">>

\* app.use(...) from the general limiter on, in the order of registration
Middleware == <<"generalLimiter", "validateRequest", "express.json", "route">>

\* the hit record of an address after counting one more request
generalLimiterHit(ip) ==
  IF generalHits[ip] = None \/ now >= generalHits[ip].resetTime
  THEN [count |-> 1, resetTime |-> now + GeneralWindow]
  ELSE [generalHits[ip] EXCEPT !.count = @ + 1]

\* the store keeps counting up to MaxOver requests over the limit
GeneralHasRoom(ip) ==
  IF generalHits[ip] = None THEN TRUE
  ELSE generalHits[ip].count < GeneralMax + MaxOver

\* the router or handler that app.get / app.use mounts the path on
Mount(path) ==
  IF path = "/health" THEN "health"
  ELSE IF path = "/auth/login" THEN "authRoutes"
  ELSE "mediaRoutes"

\* the middleware named name takes request r of slot h: it answers, or calls
\* next() and the request waits for the following layer
RunMiddleware(h, r, name) ==
  LET q == [r EXCEPT !.ran = Append(@, name), !.stage = @ + 1]
  IN IF name = "generalLimiter"
     THEN /\ GeneralHasRoom(r.ip)
          /\ LET hit == generalLimiterHit(r.ip)
             IN IF hit.count > GeneralMax
                THEN /\ \E counted \in BOOLEAN :
                          generalHits' = IF counted
                                         THEN [generalHits EXCEPT ![r.ip] = hit]
                                         ELSE generalHits
                     /\ Finish(h, [Respond(q, 429,
                                     "Too many requests from this IP, please try again later.")
                                     EXCEPT !.retryAfter = retryAfter(hit.resetTime)])
                ELSE /\ generalHits' = [generalHits EXCEPT ![r.ip] = hit]
                     /\ Continue(h, [q EXCEPT !.rateLimit =
                                        [current |-> hit.count,
                                         resetTime |-> hit.resetTime]])
     ELSE IF name = "validateRequest"
     THEN /\ IF r.suspicious
             THEN Finish(h, Respond(q, 400, "Invalid request detected"))
             ELSE Continue(h, q)
          /\ generalHits' = generalHits
     ELSE IF name = "express.json"
     THEN /\ Continue(h, q)
          /\ generalHits' = generalHits
     ELSE /\ IF Mount(r.path) = "health"
             THEN Finish(h, Respond(q, 200, "OK"))
             ELSE Finish(h, [q EXCEPT !.pc = Mount(r.path)])
          /\ generalHits' = generalHits

\* a request arrives and the first layer of the chain takes it
AppArrive(h, ip, path, suspicious) ==
  /\ Accepts(h)
  /\ RunMiddleware(h, [NewRequest("app", 0, ip) EXCEPT
                         !.pc = "app", !.path = path,
                         !.suspicious = suspicious, !.stage = 1],
                   Middleware[1])
  /\ UNCHANGED <<now, nextReap, MediaAsset, MediaViewLog, streamingTokens,
                 uuidCount, redisClient, redis, viewHits, minted, acked, nview,
                 redisReady, hits, authHits, authAdmits, AdminUser, computedAt>>

\* the next layer takes a request that a layer has passed on
AppNext(h) ==
  /\ req[h].pc = "app"
  /\ RunMiddleware(h, req[h], Middleware[req[h].stage])
  /\ UNCHANGED <<now, nextReap, MediaAsset, MediaViewLog, streamingTokens,
                 uuidCount, redisClient, redis, viewHits, minted, acked, nview,
                 redisReady, hits, authHits, authAdmits, AdminUser, computedAt>>

\* ---- routes/auth ----
\* /^[^\s@]+@[^\s@]+\.[^\s@]+$/ on the addresses of the model
emailRegex(email) == email \in Emails

\* bcrypt.hash and bcrypt.compare
Hash(password) == [bcrypt |-> password]
Compare(password, hashed) == hashed = Hash(password)

\* variant: the look-up finds no row
getUser_Missing(email) == None

\* SELECT ... FROM AdminUser WHERE email = ?
getUser(email) == AdminUser[email]

\* jwt.sign({ userId, email }, JWT_SECRET, { expiresIn: '24h' })
Sign(userId, email) == [userId |-> userId, email |-> email]

\* the request on its way into the signup handler: the body is validated and
\* the look-up of the email is issued
SignupRequest(body) ==
  LET r == [NewRequest("signup", 0, "a") EXCEPT !.email = body.email,
                                               !.password = body.password]
  IN IF body.email = "" \/ body.password = ""
     THEN Respond(r, 400, "Email and password are required")
     ELSE IF ~emailRegex(body.email)
     THEN Respond(r, 400, "Please provide a valid email address")
     ELSE IF Len(body.password) < MinPassword
     THEN Respond(r, 400, "Password must be at least 6 characters long")
     ELSE [r EXCEPT !.pc = "signup_exists"]

\* POST /auth/signup
SignupStart(h, ip, body) ==
  authLimiter(h, ip, SignupRequest(body))

SignupExists(h) ==
  /\ req[h].pc = "signup_exists"
  /\ IF getUser(req[h].email) # None
     THEN Finish(h, Respond(req[h], 409, "User with this email already exists"))
     ELSE Continue(h, [req[h] EXCEPT !.pc = "signup_hash"])
  /\ UNCHANGED <<now, nextReap, MediaAsset, MediaViewLog, streamingTokens,
                 uuidCount, redisClient, redis, viewHits, minted, acked, nview,
                 redisReady, hits, authHits, authAdmits, AdminUser, generalHits, computedAt>>

SignupHash(h) ==
  /\ req[h].pc = "signup_hash"
  /\ Continue(h, [req[h] EXCEPT !.pc = "signup_insert",
                                !.user = [hashed_password |-> Hash(req[h].password)]])
  /\ UNCHANGED <<now, nextReap, MediaAsset, MediaViewLog, streamingTokens,
                 uuidCount, redisClient, redis, viewHits, minted, acked, nview,
                 redisReady, hits, authHits, authAdmits, AdminUser, generalHits, computedAt>>

\* the INSERT fails on the UNIQUE email when another signup came first
SignupInsert(h) ==
  /\ req[h].pc = "signup_insert"
  /\ IF AdminUser[req[h].email] # None
     THEN /\ AdminUser' = AdminUser
          /\ Finish(h, Respond(req[h], 500, "Failed to create account"))
     ELSE /\ AdminUser' = [AdminUser EXCEPT ![req[h].email] =
                             [id |-> 1 + Cardinality({m \in Emails : AdminUser[m] # None}),
                              email |-> req[h].email,
                              hashed_password |-> req[h].user.hashed_password]]
          /\ Finish(h, [Respond(req[h], 201, "Admin account created successfully")
                          EXCEPT !.jwt = Sign(AdminUser'[req[h].email].id, req[h].email)])
  /\ UNCHANGED <<now, nextReap, MediaAsset, MediaViewLog, streamingTokens,
                 uuidCount, redisClient, redis, viewHits, minted, acked, nview,
                 redisReady, hits, authHits, authAdmits, generalHits, computedAt>>

\* variant: the answer tells that there is no such account
NoSuchUser_Telling(r) == Respond(r, 404, "User not found")

\* the answers to a login for an unknown email and with a wrong password
NoSuchUser(r) == Respond(r, 401, "Invalid email or password")
WrongPassword(r) == Respond(r, 401, "Invalid email or password")

\* the request on its way into the login handler
LoginRequest(body) ==
  LET r == [NewRequest("login", 0, "a") EXCEPT !.email = body.email,
                                              !.password = body.password]
  IN IF body.email = "" \/ body.password = ""
     THEN Respond(r, 400, "Email and password are required")
     ELSE [r EXCEPT !.pc = "login_find"]

\* POST /auth/login
LoginStart(h, ip, body) ==
  authLimiter(h, ip, LoginRequest(body))

LoginFind(h) ==
  /\ req[h].pc = "login_find"
  /\ IF getUser(req[h].email) = None
     THEN Finish(h, NoSuchUser(req[h]))
     ELSE Continue(h, [req[h] EXCEPT !.pc = "login_compare",
                                     !.user = getUser(req[h].email)])
  /\ UNCHANGED <<now, nextReap, MediaAsset, MediaViewLog, streamingTokens,
                 uuidCount, redisClient, redis, viewHits, minted, acked, nview,
                 redisReady, hits, authHits, authAdmits, AdminUser, generalHits, computedAt>>

LoginCompare(h) ==
  /\ req[h].pc = "login_compare"
  /\ IF Compare(req[h].password, req[h].user.hashed_password)
     THEN Finish(h, [Respond(req[h], 200, "Login successful")
                       EXCEPT !.jwt = Sign(req[h].user.id, req[h].user.email)])
     ELSE Finish(h, WrongPassword(req[h]))
  /\ UNCHANGED <<now, nextReap, MediaAsset, MediaViewLog, streamingTokens,
                 uuidCount, redisClient, redis, viewHits, minted, acked, nview,
                 redisReady, hits, authHits, authAdmits, AdminUser, generalHits, computedAt>>

\* ---- the clock; Redis drops the keys whose TTL has run out and the limiter
\* store drops the keys whose window has ended ----
Tick(d) ==
  /\ now + d <= MaxTime
  /\ now + d <= nextReap
  /\ now' = now + d
  /\ redis' = [k \in DOMAIN redis |->
                 IF redis[k] # None /\ redis[k].expireAt <= now + d
                 THEN None ELSE redis[k]]
  /\ viewHits' = [k \in DOMAIN viewHits |->
                    IF viewHits[k] # None /\ viewHits[k].resetTime <= now + d
                    THEN None ELSE viewHits[k]]
  /\ hits' = [k \in DOMAIN hits |->
                IF viewHits'[k] = None
                THEN [NoHits EXCEPT !.earlier = hits[k].earlier
                                                \/ hits[k].arrived > hits[k].admitted]
                ELSE hits[k]]
  /\ authHits' = [k \in DOMAIN authHits |->
                    IF authHits[k] # None /\ authHits[k].resetTime <= now + d
                    THEN None ELSE authHits[k]]
  /\ generalHits' = [k \in DOMAIN generalHits |->
                       IF generalHits[k] # None /\ generalHits[k].resetTime <= now + d
                       THEN None ELSE generalHits[k]]
  /\ out' = Idle
  /\ UNCHANGED <<nextReap, MediaAsset, MediaViewLog, streamingTokens, uuidCount,
                 redisClient, req, minted, acked, nview,
                 redisReady, authAdmits, AdminUser, computedAt>>

\* the positions at which the handler awaits a query of the database
AnalyticsQueries == {"an_exists", "an_total", "an_unique", "an_perday", "an_recent"}

\* variant: a failed query is answered as an absent object
CatchAnalytics_NotFound(r, error) ==
  [Respond(r, 404, "Media not found") EXCEPT !.err = error]

\* catch (error) of the analytics handler
CatchAnalytics(r, error) ==
  [Respond(r, 500, "Failed to retrieve analytics") EXCEPT !.err = error]

\* sqlite hands an error to the callback of db.get / db.all: the promise is
\* rejected and the await throws into the handler's catch
GetAnalyticsQueryFails(h) ==
  /\ req[h].kind = "analytics"
  /\ req[h].pc \in AnalyticsQueries
  /\ Finish(h, CatchAnalytics(req[h], [message |-> "SQLITE_ERROR"]))
  /\ UNCHANGED <<now, nextReap, MediaAsset, MediaViewLog, streamingTokens,
                 uuidCount, redisClient, redis, viewHits, minted, acked, nview,
                 redisReady, hits, authHits, authAdmits, AdminUser, generalHits, computedAt>>

\* a request of a client that keeps no earlier answer
GetAnalyticsStart(h, id, cred) == GetAnalyticsArrive(h, id, cred, None)

\* the client that has just been given a snapshot of the object asks again
GetAnalyticsRepeat(h, id) ==
  /\ out.kind = "analytics" /\ out.id = id /\ out.status = 200
  /\ GetAnalyticsArrive(h, id, "valid", out.data)

\* ---- the system ----
\* the server has just started, at any time of the clock; the store of the
\* general limiter is set apart
Started ==
  /\ now \in StartTimes
  /\ nextReap = now + ReapInterval
  /\ MediaAsset = StoredMedia
  /\ MediaViewLog = <<>>
  /\ streamingTokens = <<>>
  /\ uuidCount = 0
  /\ redisClient \in BOOLEAN
  /\ redis = [k \in MediaIds |-> None]
  /\ viewHits = [k \in IPs \X MediaIds |-> None]
  /\ req = [h \in Handlers |-> Idle]
  /\ out = Idle
  /\ minted = <<>>
  /\ acked = [k \in MediaIds |-> 0]
  /\ nview = 0
  /\ redisReady = TRUE
  /\ hits = [k \in IPs \X MediaIds |-> NoHits]
  /\ authHits = [k \in IPs |-> None]
  /\ authAdmits = <<>>
  /\ AdminUser = [m \in Emails |-> None]
  /\ computedAt = [k \in MediaIds |-> 0]

Init == Started /\ generalHits = [k \in IPs |-> None]

RecordView(ids, ips) ==
  \/ \E h \in Handlers, id \in ids, ip \in ips : RecordViewStart(h, id, ip)
  \/ \E h \in Handlers : RecordViewExists(h)
  \/ \E h \in Handlers : RecordViewInsert(h)
  \/ \E h \in Handlers : RecordViewInvalidate(h)
  \/ \E h \in Handlers : RecordViewRespond(h)

GetAnalytics(ids, creds) ==
  \/ \E h \in Handlers, id \in ids, cred \in creds : GetAnalyticsStart(h, id, cred)
  \/ \E h \in Handlers : GetAnalyticsExists(h)
  \/ \E h \in Handlers : GetAnalyticsCacheGet(h)
  \/ \E h \in Handlers : GetAnalyticsTotal(h)
  \/ \E h \in Handlers : GetAnalyticsUnique(h)
  \/ \E h \in Handlers : GetAnalyticsPerDay(h)
  \/ \E h \in Handlers : GetAnalyticsRecent(h)
  \/ \E h \in Handlers : GetAnalyticsStore(h)

IssueCapability(ids, ips) ==
  \/ \E h \in Handlers, id \in ids, ip \in ips : IssueCapabilityStart(h, id, ip)
  \/ \E h \in Handlers : IssueCapabilityExists(h)
  \/ \E h \in Handlers : IssueCapabilityInsert(h)
  \/ \E h \in Handlers : IssueCapabilityInvalidate(h)
  \/ \E h \in Handlers : IssueCapabilityRespond(h)

RedeemCapability(ids) ==
  \/ \E h \in Handlers, id \in ids, token \in TokenIds \cup {NoToken} :
       RedeemCapabilityStart(h, id, token)
  \/ \E h \in Handlers : RedeemCapabilityExists(h)

\* ---- the connection to Redis is lost and comes back; the keys stay ----
RedisDown ==
  /\ redisClient /\ redisReady
  /\ redisReady' = FALSE
  /\ out' = Idle
  /\ UNCHANGED <<now, nextReap, MediaAsset, MediaViewLog, streamingTokens, uuidCount,
                 redisClient, redis, viewHits, req, minted, acked, nview,
                 hits, authHits, authAdmits, AdminUser, generalHits, computedAt>>

RedisUp ==
  /\ redisClient /\ ~redisReady
  /\ redisReady' = TRUE
  /\ out' = Idle
  /\ UNCHANGED <<now, nextReap, MediaAsset, MediaViewLog, streamingTokens, uuidCount,
                 redisClient, redis, viewHits, req, minted, acked, nview,
                 hits, authHits, authAdmits, AdminUser, generalHits, computedAt>>

Clock ==
  \/ Reap
  \/ \E d \in TickSteps : Tick(d)

\* the server started at time 0
InitEpoch == Init /\ now = 0

\* Redis was reachable at start-up
InitConnected == InitEpoch /\ redisClient

\* the four routes at one instant, asked by one client for a stored and for an
\* absent object
Next ==
  \/ RecordView(Watched, OneIP)
  \/ GetAnalytics(Watched, Creds)
  \/ IssueCapability(Watched, OneIP)
  \/ RedeemCapability(Watched)

Spec == InitEpoch /\ [][Next]_vars

\* one client's view events of one stored object, and analytics reads of it
\* that are repeated as soon as they are answered
NextRepeat ==
  \/ RecordView(OneMedia, OneIP)
  \/ GetAnalytics(OneMedia, {"valid"})
  \/ \E h \in Handlers, id \in OneMedia : GetAnalyticsRepeat(h, id)

SpecRepeat == InitConnected /\ [][NextRepeat]_vars

\* view events of the stored objects by several clients, and analytics reads
\* of one of the objects
NextAggregate ==
  \/ RecordView(StoredMedia, OneIP)
  \/ IssueCapability(StoredMedia, IPs)
  \/ GetAnalytics(OneMedia, {"valid"})

SpecAggregate == InitConnected /\ [][NextAggregate]_vars

\* the server has run for a month: the view log holds rows of earlier days
HistoryTimes == {0, 1439, 1440, 44640}
HistoryNow == {43200, 44640, 46079}

HistoryLogs ==
  LET rows == [media_id : StoredMedia, viewed_by_ip : OneIP, timestamp : HistoryTimes]
  IN {log \in UNION {[1..n -> rows] : n \in 0..MaxLog} :
        \A i, j \in DOMAIN log : i <= j => log[i].timestamp <= log[j].timestamp}

InitHistory ==
  /\ now \in HistoryNow
  /\ nextReap = now + ReapInterval
  /\ MediaAsset = StoredMedia
  /\ MediaViewLog \in HistoryLogs
  /\ \A i \in DOMAIN MediaViewLog : MediaViewLog[i].timestamp <= now
  /\ streamingTokens = <<>>
  /\ uuidCount = 0
  /\ redisClient = TRUE
  /\ redis = [k \in MediaIds |-> None]
  /\ viewHits = [k \in IPs \X MediaIds |-> None]
  /\ req = [h \in Handlers |-> Idle]
  /\ out = Idle
  /\ minted = <<>>
  /\ acked = [k \in MediaIds |-> Cardinality(RowsOf(MediaViewLog, k))]
  /\ nview = 0
  /\ redisReady = TRUE
  /\ hits = [k \in IPs \X MediaIds |-> NoHits]
  /\ authHits = [k \in IPs |-> None]
  /\ authAdmits = <<>>
  /\ AdminUser = [m \in Emails |-> None]
  /\ computedAt = [k \in MediaIds |-> 0]
  /\ generalHits = [k \in IPs |-> None]

\* analytics reads of one object and new view events of it, after a month
NextHistory ==
  \/ RecordView(OneMedia, OneIP)
  \/ GetAnalytics(OneMedia, {"valid"})

SpecHistory == InitHistory /\ [][NextHistory]_vars

\* a server whose library is still empty
InitEmpty ==
  /\ now = 0
  /\ nextReap = now + ReapInterval
  /\ MediaAsset = {}
  /\ MediaViewLog = <<>>
  /\ streamingTokens = <<>>
  /\ uuidCount = 0
  /\ redisClient = TRUE
  /\ redis = [k \in MediaIds |-> None]
  /\ viewHits = [k \in IPs \X MediaIds |-> None]
  /\ req = [h \in Handlers |-> Idle]
  /\ out = Idle
  /\ minted = <<>>
  /\ acked = [k \in MediaIds |-> 0]
  /\ nview = 0
  /\ redisReady = TRUE
  /\ hits = [k \in IPs \X MediaIds |-> NoHits]
  /\ authHits = [k \in IPs |-> None]
  /\ authAdmits = <<>>
  /\ AdminUser = [m \in Emails |-> None]
  /\ computedAt = [k \in MediaIds |-> 0]
  /\ generalHits = [k \in IPs |-> None]

\* bursts of view requests of one client for two objects, up to the handler's
\* look-up of the object
NextLimiter ==
  \/ \E h \in Handlers, id \in StoredMedia, ip \in OneIP : RecordViewBurst(h, id, ip)
  \/ \E h \in Handlers : RecordViewExists(h)
  \/ Clock

SpecLimiter == InitEmpty /\ [][NextLimiter]_vars

Signup(ips, bodies) ==
  \/ \E h \in Handlers, ip \in ips, body \in bodies : SignupStart(h, ip, body)
  \/ \E h \in Handlers : SignupExists(h)
  \/ \E h \in Handlers : SignupHash(h)
  \/ \E h \in Handlers : SignupInsert(h)

Login(ips, bodies) ==
  \/ \E h \in Handlers, ip \in ips, body \in bodies : LoginStart(h, ip, body)
  \/ \E h \in Handlers : LoginFind(h)
  \/ \E h \in Handlers : LoginCompare(h)

\* signups and logins of one source with a well-formed body
NextAuth ==
  \/ Signup(OneIP, OneBody)
  \/ Login(OneIP, OneBody)
  \/ Clock

SpecAuth == InitConnected /\ [][NextAuth]_vars

\* one client's views, mints and analytics reads of one stored object while
\* Redis is absent, or is lost and comes back
NextFaults ==
  \/ RecordView(OneMedia, OneIP)
  \/ GetAnalytics(OneMedia, {"valid"})
  \/ IssueCapability(OneMedia, OneIP)
  \/ RedisDown
  \/ RedisUp

SpecFaults == InitEpoch /\ [][NextFaults]_vars

ListMedia(creds) ==
  \/ \E h \in Handlers, cred \in creds : ListMediaStart(h, cred)
  \/ \E h \in Handlers : ListMediaAll(h)

\* the two admin routes asked with every kind of credential, and view events
\* of a stored and of an absent object
NextAdmin ==
  \/ GetAnalytics(Watched, Creds)
  \/ ListMedia(Creds)
  \/ RecordView(Watched, OneIP)

SpecAdmin == InitConnected /\ [][NextAdmin]_vars

\* signups of one source, and its logins with the right and with a wrong
\* password, within one window of the limiter
NextLogin ==
  \/ Signup(OneIP, OneBody)
  \/ Login(OneIP, TwoBodies)

SpecLogin == InitConnected /\ [][NextLogin]_vars

RedeemCapabilityFrom(ids, ips) ==
  \/ \E h \in Handlers, id \in ids, token \in TokenIds \cup {NoToken}, ip \in ips :
       RedeemCapabilityArrive(h, id, token, ip)
  \/ \E h \in Handlers : RedeemCapabilityExists(h)

\* one client's mints for one object and redeems from two addresses for two
\* objects, at one instant
NextBearer ==
  \/ IssueCapability(OneMedia, OneIP)
  \/ RedeemCapabilityFrom(StoredMedia, IPs)

SpecBearer == InitConnected /\ [][NextBearer]_vars

\* one client's mints and redeems for one object, the reap timer and the clock
NextReap ==
  \/ IssueCapability(OneMedia, OneIP)
  \/ RedeemCapability(OneMedia)
  \/ Clock

SpecReap == InitConnected /\ [][NextReap]_vars

\* analytics reads of one stored object whose queries may fail, and view events
NextDbFaults ==
  \/ RecordView(OneMedia, OneIP)
  \/ GetAnalytics(OneMedia, {"valid"})
  \/ \E h \in Handlers : GetAnalyticsQueryFails(h)

SpecDbFaults == InitConnected /\ [][NextDbFaults]_vars

\* the store of the general limiter after an address has sent all but two of
\* the requests of its window
BusyHits ==
  [k \in IPs |-> IF k \in OneIP
                 THEN [count |-> GeneralMax - 2, resetTime |-> GeneralWindow]
                 ELSE None]

InitBusy == Started /\ now = 0 /\ redisClient /\ generalHits = BusyHits

\* requests of one client for the three mount points go down the chain
NextChain ==
  \/ \E h \in Handlers, ip \in OneIP, path \in Paths, suspicious \in BOOLEAN :
       AppArrive(h, ip, path, suspicious)
  \/ \E h \in Handlers : AppNext(h)

SpecChain == InitBusy /\ [][NextChain]_vars

\* analytics reads of one stored object and view events of it, while time passes
NextExpiry ==
  \/ RecordView(OneMedia, OneIP)
  \/ GetAnalytics(OneMedia, {"valid"})
  \/ Clock

SpecExpiry == InitConnected /\ [][NextExpiry]_vars

\* the server has counted, since it started, all requests of the general
\* limiter's window but two, all sign-ups and logins of the auth limiter's
\* window but one, and all view requests of an absent object but one; none of
\* them has left a row, a token or an account, and an analytics read of a
\* stored object has left its snapshot in the cache
InitNearLimit ==
  /\ now = 0
  /\ nextReap = now + ReapInterval
  /\ MediaAsset = StoredMedia
  /\ MediaViewLog = <<>>
  /\ streamingTokens = <<>>
  /\ uuidCount = 0
  /\ redisClient = TRUE
  /\ redis = [k \in MediaIds |->
                IF k \in OneMedia
                THEN [data |-> EmptySnapshot, expireAt |-> CacheTTL]
                ELSE None]
  /\ viewHits = [k \in IPs \X MediaIds |->
                   IF k = <<"a", 3>>
                   THEN [count |-> ViewMax - 1, resetTime |-> ViewWindow]
                   ELSE None]
  /\ req = [h \in Handlers |-> Idle]
  /\ out = Idle
  /\ minted = <<>>
  /\ acked = [k \in MediaIds |-> 0]
  /\ nview = ViewMax - 1
  /\ redisReady = TRUE
  /\ hits = [k \in IPs \X MediaIds |->
                IF k = <<"a", 3>>
                THEN [arrived |-> ViewMax - 1, admitted |-> ViewMax - 1,
                      earlier |-> FALSE]
                ELSE NoHits]
  /\ authHits = [k \in IPs |->
                   IF k = "a"
                   THEN [count |-> AuthMax - 1, resetTime |-> AuthWindow]
                   ELSE None]
  /\ authAdmits = [i \in 1..(AuthMax - 1) |->
                     [ip |-> "a", at |-> 0, resetTime |-> AuthWindow]]
  /\ AdminUser = [m \in Emails |-> None]
  /\ computedAt = [k \in MediaIds |-> 0]
  /\ generalHits = BusyHits

\* one client, close to the limit of three limiters, goes on sending view
\* requests, sign-ups and health checks
NextRefusals ==
  \/ \E h \in Handlers, id \in Watched, ip \in OneIP : RecordViewBurst(h, id, ip)
  \/ \E h \in Handlers : RecordViewExists(h)
  \/ \E h \in Handlers : RecordViewInsert(h)
  \/ \E h \in Handlers : RecordViewInvalidate(h)
  \/ \E h \in Handlers : RecordViewRespond(h)
  \/ Signup(OneIP, OneBody)
  \/ \E h \in Handlers, ip \in OneIP : AppArrive(h, ip, "/health", FALSE)
  \/ \E h \in Handlers : AppNext(h)

SpecRefusals == InitNearLimit /\ [][NextRefusals]_vars

\* the four routes of one stored object, asked by one client at one instant
NextFrame ==
  \/ RecordView(OneMedia, OneIP)
  \/ GetAnalytics(OneMedia, {"valid"})
  \/ IssueCapability(OneMedia, OneIP)
  \/ RedeemCapability(OneMedia)

SpecFrame == InitConnected /\ [][NextFrame]_vars

\* analytics reads of two stored objects, and view events and mints for one
NextIsolation ==
  \/ RecordView(OneMedia, OneIP)
  \/ GetAnalytics(StoredMedia, {"valid"})
  \/ IssueCapability(OneMedia, OneIP)

SpecIsolation == InitConnected /\ [][NextIsolation]_vars

\* tokens that are minted and never redeemed
NextAbandoned ==
  \/ IssueCapability(OneMedia, IPs)
  \/ Clock

SpecAbandoned == InitConnected /\ [][NextAbandoned]_vars

\* mints by several clients and authenticated analytics reads of one stored
\* object, with the server started at any time
NextMint ==
  \/ GetAnalytics(OneMedia, {"valid"})
  \/ IssueCapability(OneMedia, IPs)

SpecMint == Init /\ [][NextMint]_vars

\* the token registry, its clients, the cleanup timer and the clock
NextTokens ==
  \/ IssueCapability(OneMedia, OneIP)
  \/ RedeemCapability(StoredMedia)
  \/ Clock

SpecTokens == InitConnected /\ [][NextTokens]_vars

\* ---- history lookups ----
Minted(t) == \E i \in DOMAIN minted : minted[i].token = t
MintedData(t) == minted[CHOOSE i \in DOMAIN minted : minted[i].token = t]

TokenErrors == {"Streaming token required", "Invalid streaming token",
                "Streaming token expired", "Invalid streaming token for this media"}

\* ---- properties ----

\* C1: once a view event of X has been recorded and acknowledged, a
\* GetAnalytics(X) that starts afterwards never answers from the cache with a
\* snapshot that omits that event
C1_NoStaleCacheHit ==
  (out.kind = "analytics" /\ out.cached) => out.data.total_views >= out.seen

\* C2: the cache read of a GetAnalytics that started after an append was
\* acknowledged never returns a snapshot computed before that append
C2_NoStaleEntryForLaterReader ==
  [][\A h \in Handlers :
       (req[h].pc = "an_cache" /\ req'[h].pc = "idle") =>
         out'.data.total_views >= req[h].seen]_vars

\* C3: a redeem of a token against its object succeeds at any time before
\* expires_at and is refused at any time at or after it, as Expired whenever
\* the entry is still in the registry, whether or not the cleanup has run
C3_ExpiredAtOrAfterExpiry ==
  (out.kind = "stream" /\ Minted(out.token)
     /\ out.id = MintedData(out.token).mediaId) =>
    IF out.at < MintedData(out.token).expiresAt
    THEN out.status = 200
    ELSE /\ out.status = 401
         /\ out.tokenData # None => out.body = "Streaming token expired"

\* C4: a redeem of an unexpired token of object A against another object B is
\* answered ObjectMismatch, streams nothing and leaves the entry as it was
C4_ObjectMismatch ==
  (out.kind = "stream" /\ out.tokenData # None
     /\ out.at < out.tokenData.expiresAt /\ out.tokenData.mediaId # out.id) =>
    /\ out.status = 401
    /\ out.body = "Invalid streaming token for this media"
    /\ GetToken(out.token) = out.tokenData

C4_Witness ==
  /\ out.kind = "stream"
  /\ out.body = "Invalid streaming token for this media"
  /\ out.id \in MediaAsset
  /\ out.token \in DOMAIN streamingTokens

\* C5: a redeem whose token is not in the registry (not supplied, never minted
\* or already evicted) is answered Unauthorized, streams nothing and changes
\* no state
C5_UnknownToken ==
  [][(out'.kind = "stream" /\ out'.tokenData = None) =>
       /\ out'.status = 401
       /\ out'.body \in {"Streaming token required", "Invalid streaming token"}
       /\ UNCHANGED <<MediaAsset, MediaViewLog, streamingTokens, uuidCount,
                      redis, viewHits, req>>]_vars

\* the token refused as unknown had been minted and evicted
C5_Witness ==
  /\ out.kind = "stream"
  /\ out.body = "Invalid streaming token"
  /\ Minted(out.token)

\* C6: IssueCapability for an absent object is answered 404 and the request
\* changes neither the registry nor the view log nor the cache
C6_MintAbsent ==
  [][(out'.kind = "mint" /\ out'.id \notin MediaAsset) =>
       /\ out'.status = 404
       /\ out'.newToken = NoToken
       /\ out'.seq = 0
       /\ UNCHANGED <<streamingTokens, MediaViewLog, redis, minted>>]_vars

C6_Witness ==
  /\ out.kind = "mint"
  /\ out.status = 404
  /\ out.id \notin MediaAsset
  /\ streamingTokens # <<>>
  /\ MediaViewLog # <<>>
  /\ \E k \in MediaIds : redis[k] # None

C8_AllNotFound ==
  (out.kind # "idle" /\ out.id \notin MediaAsset) => out.status = 404

\* C8 as amended: for an absent object IssueCapability, an admitted RecordView
\* and an authenticated GetAnalytics are answered NotFound; RedeemCapability is
\* refused with a token error (401) and never streams; admission does not
\* depend on the object being stored
C8_AbsentObject ==
  /\ (out.kind # "idle" /\ out.id \notin MediaAsset) =>
       CASE out.kind = "mint" -> out.status = 404
         [] out.kind = "view" -> out.status \in {404, 429}
         [] out.kind = "analytics" ->
              out.status = CASE out.cred = "none" -> 401
                             [] out.cred = "invalid" -> 403
                             [] OTHER -> 404
         [] OTHER -> out.status = 401 /\ out.body \in TokenErrors
  /\ \A h \in Handlers :
       (req[h].kind # "idle" /\ req[h].id \notin MediaAsset) =>
         req[h].pc \in {"view_exists", "an_exists", "mint_exists"}

\* a live token of a stored object has been presented for the absent object
C8_Witness ==
  /\ out.kind = "stream"
  /\ out.id \notin MediaAsset
  /\ out.body = "Invalid streaming token for this media"

\* C9: concurrent mints get pairwise distinct tokens, every entry stays in the
\* registry unaltered until its own expiry, and each mint records one view event
C9_ConcurrentMints ==
  /\ \A i, j \in DOMAIN minted : i # j => minted[i].token # minted[j].token
  /\ \A i \in DOMAIN minted :
       now <= minted[i].expiresAt =>
         GetToken(minted[i].token) = [mediaId |-> minted[i].mediaId,
                                      expiresAt |-> minted[i].expiresAt,
                                      clientIP |-> minted[i].clientIP]
  /\ Len(MediaViewLog) =
       Len(minted) - Cardinality({h \in Handlers : req[h].pc = "mint_insert"})

\* two mints for the same object are in progress together, both past their set
C9_Witness ==
  /\ req[1].pc = "mint_insert"
  /\ req[2].pc = "mint_insert"
  /\ req[1].id = req[2].id

\* C10: a run of the cleanup at a time at or after a token's expires_at removes
\* that token
C10_ReapEvictsAtOrAfterExpiry ==
  [][nextReap' # nextReap =>
       \A t \in DOMAIN streamingTokens :
         now >= streamingTokens[t].expiresAt => t \notin DOMAIN streamingTokens']_vars

\* C11: two GetAnalytics(X), the second issued right after the first was
\* answered, with Redis in service and every view event of X acknowledged
\* before the second started and none appended since, return the same
\* snapshot, the second from the cache
C11_RepeatedReadHits ==
  [][\A h \in Handlers :
       (/\ req[h].kind = "analytics" /\ req[h].prior # None
        /\ req'[h].pc = "idle" /\ out'.kind = "analytics"
        /\ redisClient /\ redisReady
        /\ Cardinality(RowsOf(MediaViewLog, req[h].id)) = req[h].seen) =>
         /\ out'.status = 200
         /\ out'.cached
         /\ out'.data = req[h].prior]_vars

C13_RecentLength ==
  (out.kind = "analytics" /\ out.status = 200) =>
    /\ Len(out.data.recent_views) = Min(RecentLimit, out.data.total_views)
    /\ \A i, j \in DOMAIN out.data.recent_views :
         i < j => out.data.recent_views[i].timestamp >= out.data.recent_views[j].timestamp

\* C14: in the views_per_day of a snapshot computed at time t every key is a
\* calendar day not more than 30 days before the day of t, on which the object
\* has at least one view event, and its count is the number of view events of
\* the object on that day
C14_HistogramWindow ==
  [][\A h \in Handlers :
       (req[h].pc = "an_perday" /\ req'[h].pc = "an_recent") =>
         \A d \in DOMAIN req'[h].data.views_per_day :
           /\ d >= (now \div MinutesPerDay) - HistogramDays
           /\ d <= now \div MinutesPerDay
           /\ req'[h].data.views_per_day[d] >= 1
           /\ req'[h].data.views_per_day[d] =
                Cardinality({i \in DOMAIN MediaViewLog :
                               /\ MediaViewLog[i].media_id = req[h].id
                               /\ MediaViewLog[i].timestamp \div MinutesPerDay = d})]_vars

\* a histogram with a key has been computed from a log that also holds a view
\* event of the object older than the window
C14_Witness ==
  \E h \in Handlers :
    /\ req[h].pc = "an_recent"
    /\ DOMAIN req[h].data.views_per_day # {}
    /\ \E i \in DOMAIN MediaViewLog :
         /\ MediaViewLog[i].media_id = req[h].id
         /\ MediaViewLog[i].timestamp \div MinutesPerDay <
              (now \div MinutesPerDay) - HistogramDays

\* C15: the view-logging limiter is keyed by (source IP, object id): of the
\* view requests of one source for one object within one window the first 10
\* reach the handler and the 11th is answered 429, and the requests of the
\* source for another object are decided by that object's own count
C15_EleventhDenied ==
  [][\A ip \in IPs, id \in MediaIds :
       (hits'[<<ip, id>>].arrived = hits[<<ip, id>>].arrived + 1) =>
         /\ (hits[<<ip, id>>].arrived < ViewMax =>
               \E h \in Handlers :
                 /\ req[h].pc = "idle" /\ req'[h].pc = "view_exists"
                 /\ req'[h].id = id /\ req'[h].ip = ip)
         /\ (hits[<<ip, id>>].arrived = ViewMax =>
               /\ out'.kind = "view" /\ out'.status = 429
               /\ out'.id = id /\ out'.ip = ip
               /\ \A h \in Handlers : req[h].pc = "idle" => req'[h].pc = "idle")]_vars

\* the 11th request for object 1 has been refused, and a request of the same
\* source for object 2 has then been let through to the handler
C15_Witness ==
  /\ hits[<<"a", 1>>].arrived >= ViewMax + 1
  /\ hits[<<"a", 1>>].admitted = ViewMax
  /\ hits[<<"a", 2>>].admitted = 1
  /\ \E h \in Handlers : req[h].pc = "view_exists" /\ req[h].id = 2 /\ req[h].ip = "a"

C17_NoLostUpdate ==
  [][\A k \in DOMAIN hits :
       /\ hits'[k].admitted <= ViewMax
       /\ (hits'[k].arrived = hits[k].arrived + 1 /\ hits[k].admitted >= ViewMax) =>
            /\ out'.kind = "view" /\ out'.status = 429
            /\ <<out'.ip, out'.id>> = k
            /\ hits'[k].admitted = hits[k].admitted
       /\ (hits'[k].arrived >= RapidRequests) => hits'[k].arrived - hits'[k].admitted >= 1]_vars

\* the 15th request of a key has been refused while an admitted request of the
\* key is still in its handler
C17_Witness ==
  /\ out.kind = "view" /\ out.status = 429
  /\ hits[<<out.ip, out.id>>].arrived >= RapidRequests
  /\ hits[<<out.ip, out.id>>].admitted = ViewMax
  /\ \E g \in Handlers :
       /\ req[g].pc = "view_exists"
       /\ <<req[g].ip, req[g].id>> = <<out.ip, out.id>>

\* C18 (as stated): of the signup and login requests of one source that the
\* auth limiter lets through, at most 5 fall into any period of 15 minutes
C18_AnyPeriod ==
  \A i \in DOMAIN authAdmits :
    Cardinality({j \in DOMAIN authAdmits :
                   /\ authAdmits[j].ip = authAdmits[i].ip
                   /\ authAdmits[i].at <= authAdmits[j].at
                   /\ authAdmits[j].at < authAdmits[i].at + AuthWindow}) <= AuthMax

\* C18 (amended): of the signup and login requests of one source, at most 5
\* are let through within one window of the auth limiter (the 15 minutes from
\* the source's first request after its previous window ended); a request is
\* let through only while the source's count is below 5, and a refused one is
\* answered 429 with no handler started and no account touched
C18_PerWindow ==
  [][/\ \A i \in DOMAIN authAdmits' :
          Cardinality({j \in DOMAIN authAdmits' :
                         /\ authAdmits'[j].ip = authAdmits'[i].ip
                         /\ authAdmits'[j].resetTime = authAdmits'[i].resetTime}) <= AuthMax
     /\ (authAdmits' # authAdmits) =>
          LET ip == authAdmits'[Len(authAdmits')].ip
          IN /\ authHits[ip] # None => authHits[ip].count < AuthMax
             /\ authAdmits'[Len(authAdmits')].at = now
             /\ authAdmits'[Len(authAdmits')].resetTime <= now + AuthWindow
     /\ (out'.kind \in {"signup", "login"} /\ out'.status = 429) =>
          /\ authHits[out'.ip] # None
          /\ authHits[out'.ip].count >= AuthMax
          /\ now < authHits[out'.ip].resetTime
          /\ req' = req
          /\ AdminUser' = AdminUser
          /\ authAdmits' = authAdmits
     /\ \A ip \in IPs :
          (/\ authHits[ip] # None /\ authHits[ip].count >= AuthMax
           /\ authHits'[ip] # None /\ authHits'[ip].count > authHits[ip].count) =>
             out'.status = 429]_vars

\* within the window in which the source signed up, its sixth request, a
\* login, has been refused
C18_Witness ==
  /\ now = 0
  /\ out.kind = "login" /\ out.status = 429
  /\ \E m \in Emails : AdminUser[m] # None
  /\ Len(authAdmits) = AuthMax

\* C19: with Redis absent, unreachable or failing, an analytics read of a
\* stored object that finds no usable cache goes on to the view log and is
\* answered 200 with the snapshot it computed, tagged as not cached; a view is
\* answered 201 and a mint 200; no request is answered with an error
C19_CacheFailureHidden ==
  [][\A h \in Handlers :
       /\ (/\ req[h].pc = "an_cache" /\ req'[h] # req[h]
           /\ ~(redisClient /\ redisReady)) => req'[h].pc = "an_total"
       /\ (req[h].pc = "an_store" /\ req'[h].pc = "idle") =>
            /\ out'.status = 200 /\ ~out'.cached
            /\ out'.data = req[h].data
       /\ (req[h].pc # "idle" /\ req'[h].pc = "idle") =>
            /\ req[h].kind = "analytics" => out'.status = 200
            /\ req[h].kind = "view" => out'.status = 201
            /\ req[h].kind = "mint" => out'.status = 200]_vars

\* an analytics read has been answered with a computed snapshot that counts a
\* view, while Redis does not answer
C19_Witness ==
  /\ redisClient /\ ~redisReady
  /\ out.kind = "analytics" /\ out.status = 200 /\ ~out.cached
  /\ out.data.total_views >= 1
  /\ redis[generateAnalyticsCacheKey(out.id)] = None

\* C20: when invalidateAnalyticsCache returns on a write path that has appended
\* a view event, Redis holds no entry for the object, whatever it answered to
\* the DEL
C20_InvalidateEvicts ==
  [][\A h \in Handlers :
       (/\ req[h].pc \in {"view_invalidate", "mint_invalidate"}
        /\ req'[h].pc \in {"view_respond", "mint_respond"}) =>
          redis'[generateAnalyticsCacheKey(req[h].id)] = None]_vars

\* C21: an analytics or media-list request without a token is answered 401 and
\* one with an invalid token 403, as it arrives: no query, cache call or other
\* step of the handler is run for it, and every 200 of the two routes goes to
\* a request with a valid token
C21_AdminGate ==
  [][/\ \A h \in Handlers :
          (/\ req[h].pc = "idle" /\ req'[h] # req[h]
           /\ req'[h].kind \in {"analytics", "list"}) => req'[h].cred = "valid"
     /\ (out'.kind \in {"analytics", "list"} /\ out'.cred = "none") =>
          /\ out'.status = 401
          /\ req' = req /\ redis' = redis
          /\ out'.data = EmptySnapshot /\ out'.list = {}
     /\ (out'.kind \in {"analytics", "list"} /\ out'.cred = "invalid") =>
          /\ out'.status = 403
          /\ req' = req /\ redis' = redis
          /\ out'.data = EmptySnapshot /\ out'.list = {}
     /\ (out'.kind \in {"analytics", "list"} /\ out'.status = 200) =>
          out'.cred = "valid"]_vars

\* an analytics request with an invalid token has been refused while the cache
\* holds a snapshot of the object that counts a view
C21_Witness ==
  /\ out.kind = "analytics" /\ out.cred = "invalid" /\ out.status = 403
  /\ MediaExists(out.id)
  /\ redis[generateAnalyticsCacheKey(out.id)] # None
  /\ redis[generateAnalyticsCacheKey(out.id)].data.total_views >= 1

C23_FailuresAre401 ==
  [][/\ \A h \in Handlers :
          (req[h].pc = "idle" /\ req'[h].kind = "stream") =>
            /\ req'[h].token \in DOMAIN streamingTokens
            /\ now < streamingTokens[req'[h].token].expiresAt
            /\ streamingTokens[req'[h].token].mediaId = req'[h].id
     /\ (req' = req /\ out'.kind = "stream") => out'.status = 401]_vars

\* C24: the retry-after value of a 429 of the view-logging or of the auth
\* limiter is the time, in seconds, that remains until the window of the key
\* ends: it is not negative and not more than the window of that limiter
C24_RetryAfterIsRemaining ==
  (out.status = 429) =>
    LET window == IF out.kind = "view" THEN ViewWindow ELSE AuthWindow
        record == IF out.kind = "view" THEN viewHits[<<out.ip, out.id>>]
                  ELSE authHits[out.ip]
    IN /\ out.retryAfter >= 0
       /\ out.retryAfter <= window * 60
       /\ out.retryAfter = (record.resetTime - now) * 60

\* C25: a signup with a well-formed email and password whose email has an
\* account is answered 409 'User with this email already exists' without a
\* token, and the accounts stay as they are; an account, once made, is never
\* removed or changed
C25_SignupConflict ==
  [][/\ \A h \in Handlers :
          (/\ req[h].pc = "signup_exists" /\ req'[h] # req[h]
           /\ AdminUser[req[h].email] # None) =>
             /\ req'[h].pc = "idle"
             /\ out'.kind = "signup" /\ out'.status = 409
             /\ out'.body = "User with this email already exists"
             /\ out'.jwt = None
             /\ AdminUser' = AdminUser
     /\ \A m \in Emails : AdminUser[m] # None => AdminUser'[m] = AdminUser[m]]_vars

\* a second signup for the email of an account has been answered 409
C25_Witness ==
  /\ out.kind = "signup" /\ out.status = 409 /\ out.jwt = None
  /\ AdminUser[out.email] # None
  /\ out.password = "secret1"

\* C26: a login for an email without an account and a login with a wrong
\* password for an email with an account get the same answer: 401 'Invalid
\* email or password' and no token
C26_LoginFailuresAlike ==
  [][\A h \in Handlers :
       (/\ req[h].kind = "login" /\ req'[h] # req[h] /\ req'[h].pc = "idle"
        /\ \/ AdminUser[req[h].email] = None
           \/ AdminUser[req[h].email].hashed_password # [bcrypt |-> req[h].password]) =>
          /\ out'.status = 401
          /\ out'.body = "Invalid email or password"
          /\ out'.jwt = None]_vars

\* a login with a wrong password for an email that has an account has been
\* answered 401
C26_Witness ==
  /\ out.kind = "login" /\ out.status = 401 /\ out.jwt = None
  /\ AdminUser[out.email] # None
  /\ AdminUser[out.email].hashed_password # [bcrypt |-> out.password]

\* C27: a redeem checks unknown token, then expiry, then the bound object: a
\* redeem of a token that has reached its expiry time is answered 'Streaming
\* token expired' and removes the token from the registry, whatever object is
\* asked for; every other redeem, failed or successful, leaves the registry as
\* it is
C27_ExpiredEvictsFirst ==
  [][/\ \A h \in Handlers :
          (req[h].pc = "idle" /\ req'[h].kind = "stream") =>
            /\ ~(/\ req'[h].token \in DOMAIN streamingTokens
                 /\ now >= streamingTokens[req'[h].token].expiresAt)
            /\ streamingTokens' = streamingTokens
     /\ (req' = req /\ out'.kind = "stream") =>
          IF /\ out'.token \in DOMAIN streamingTokens
             /\ now >= streamingTokens[out'.token].expiresAt
          THEN /\ out'.status = 401 /\ out'.body = "Streaming token expired"
               /\ out'.token \notin DOMAIN streamingTokens'
               /\ \A t \in DOMAIN streamingTokens \ {out'.token} :
                    /\ t \in DOMAIN streamingTokens'
                    /\ streamingTokens'[t] = streamingTokens[t]
          ELSE /\ streamingTokens' = streamingTokens
               /\ out'.body # "Streaming token expired"
     /\ \A h \in Handlers :
          (req[h].pc = "stream_exists" /\ req'[h] # req[h]) =>
            streamingTokens' = streamingTokens]_vars

\* C28: however reap, mint and redeem interleave, no step removes or changes a
\* token whose expiry time is still ahead, a reap leaves the requests in
\* progress as they are, and a redeem of a minted token for its own object
\* before its expiry time is never answered 401
C28_ReapSparesLiveTokens ==
  [][/\ \A t \in DOMAIN streamingTokens :
          now < streamingTokens[t].expiresAt =>
            /\ t \in DOMAIN streamingTokens'
            /\ streamingTokens'[t] = streamingTokens[t]
     /\ (nextReap' # nextReap) => req' = req
     /\ (req' = req /\ out'.kind = "stream") =>
          ~\E i \in DOMAIN minted :
             /\ minted[i].token = out'.token
             /\ minted[i].mediaId = out'.id
             /\ now < minted[i].expiresAt]_vars

\* a token that was minted before the last reap is still in the registry, a
\* redeem of it is on its way to the file, and an older token is gone
C28_Witness ==
  \E h \in Handlers :
    /\ req[h].pc = "stream_exists"
    /\ req[h].token \in DOMAIN streamingTokens
    /\ now < streamingTokens[req[h].token].expiresAt
    /\ streamingTokens[req[h].token].expiresAt - TokenTTL < nextReap - ReapInterval
    /\ \E i \in DOMAIN minted : minted[i].token \notin DOMAIN streamingTokens

\* C29: with the reap firing every 5 minutes, a token minted at time t is in
\* the registry at no time after t + 10 + 5 minutes, and not after the reap of
\* that instant has run, even if it is never redeemed; every token of the
\* registry was minted within the last 15 minutes
C29_ReapBoundsLifetime ==
  \A t \in DOMAIN streamingTokens :
    LET mintedAt == streamingTokens[t].expiresAt - TokenTTL
    IN /\ now <= mintedAt + TokenTTL + ReapInterval
       /\ nextReap > now => now < mintedAt + TokenTTL + ReapInterval

\* a token that was never redeemed is gone 15 minutes after it was minted,
\* while a younger token is still held
C29_Witness ==
  /\ nextReap > now
  /\ \E i \in DOMAIN minted :
       /\ minted[i].token \notin DOMAIN streamingTokens
       /\ now = minted[i].expiresAt + ReapInterval
  /\ DOMAIN streamingTokens # {}

\* C30: what a redeem answers is fixed by the token, the object and the
\* registry, whatever address the request comes from: a live token of the
\* registry is let through to the file for its own object and refused with
\* 401 for another one, an unknown token is refused with 401, the registry is
\* left as it was, and the second step answers 200 or 404 by the object alone
C30_BearerToken ==
  [][\A h \in Handlers :
       LET arrives == Free(h) /\ (IF req' = req THEN out'.kind = "stream"
                                                ELSE req'[h].kind = "stream")
           r == IF req' = req THEN out' ELSE req'[h]
           result == IF r.pc = "stream_exists" THEN "ok" ELSE r.body
           served == ~Free(h) /\ req[h].kind = "stream" /\ req'[h] # req[h]
       IN /\ arrives /\ r.token \in DOMAIN streamingTokens
                     /\ now < streamingTokens[r.token].expiresAt =>
               /\ result = IF streamingTokens[r.token].mediaId = r.id
                           THEN "ok"
                           ELSE "Invalid streaming token for this media"
               /\ result # "ok" => r.status = 401
               /\ streamingTokens' = streamingTokens
          /\ arrives /\ r.token \notin DOMAIN streamingTokens =>
               /\ result = IF r.token = NoToken THEN "Streaming token required"
                           ELSE "Invalid streaming token"
               /\ r.status = 401
               /\ streamingTokens' = streamingTokens
          /\ served =>
               /\ out'.ip = req[h].ip /\ out'.token = req[h].token
               /\ out'.status = IF req[h].id \in MediaAsset
                                THEN 200 ELSE 404]_vars

\* the file is sent to address "b" for a token that was issued to address "a"
C30_Witness ==
  /\ out.kind = "stream"
  /\ out.status = 200
  /\ out.ip = "b"
  /\ \E i \in DOMAIN minted :
       minted[i].token = out.token /\ minted[i].clientIP = "a"

\* C31: when a query of the view log fails in an analytics read of an object
\* that was found, the request ends there with status 500 (not 404, and no
\* query is issued again for it) and the cache and the log are left as they were
C31_QueryFailureIs500 ==
  [][\A h \in Handlers :
       (/\ req[h].kind = "analytics" /\ req[h].media
        /\ req'[h] # req[h]
        /\ out'.err # None) =>
          /\ out'.status = 500
          /\ out'.body = "Failed to retrieve analytics"
          /\ ~out'.cached
          /\ req'[h] = Idle
          /\ redis' = redis
          /\ MediaViewLog' = MediaViewLog]_vars

\* a query fails after the count of a non-empty log was read, and the cache
\* holds no entry of the object
C31_Witness ==
  /\ out.kind = "analytics"
  /\ out.err # None
  /\ out.media
  /\ out.status = 500
  /\ out.data.total_views > 0
  /\ redis[out.id] = None

\* C32: the general limiter is the first layer every request meets: a request
\* it refuses has met no other layer, and a request that has met the
\* validation, the body parser or a route (health, auth, media) was counted by
\* the limiter before and was within the limit
C32_GeneralLimiterFirst ==
  \A r \in {req[h] : h \in Handlers} \cup {out} :
    r.kind = "app" =>
      /\ r.ran # <<>> => r.ran[1] = "generalLimiter"
      /\ r.status = 429 => r.ran = <<"generalLimiter">>
      /\ (\E i \in DOMAIN r.ran : r.ran[i] # "generalLimiter") =>
            /\ r.rateLimit # None
            /\ r.rateLimit.current <= GeneralMax
      /\ (r.pc \in {"authRoutes", "mediaRoutes"} \/ r.status = 200) =>
            /\ r.rateLimit # None
            /\ r.ran[Len(r.ran)] = "route"

\* a request is refused by the limiter while the last one it admitted is still
\* on its way down the chain
C32_Witness ==
  /\ out.kind = "app"
  /\ out.status = 429
  /\ \E h \in Handlers :
       /\ req[h].pc = "app"
       /\ req[h].rateLimit # None
       /\ req[h].rateLimit.current = GeneralMax

C34_LosersGet409 ==
  [][\A h \in Handlers :
       (/\ req[h].pc \in {"signup_exists", "signup_hash", "signup_insert"}
        /\ req'[h].pc = "idle") =>
          out'.status \in {201, 409}]_vars

\* C35: every snapshot that GetAnalytics answers with has unique_ips, the
\* sum of the views_per_day counts and the number of recent_views all at most
\* total_views
C35_SnapshotConsistent ==
  (out.kind = "analytics" /\ out.status = 200) =>
    LET d == out.data
        RECURSIVE SumOver(_)
        SumOver(S) == IF S = {} THEN 0
                      ELSE LET x == CHOOSE y \in S : TRUE
                           IN d.views_per_day[x] + SumOver(S \ {x})
    IN /\ d.unique_ips <= d.total_views
       /\ SumOver(DOMAIN d.views_per_day) <= d.total_views
       /\ Len(d.recent_views) <= d.total_views

\* C36: a step that answers 429 leaves the token registry, the view log, the
\* cache, the accounts and the media rows as they were, and leaves no request
\* in progress behind
C36_RefusalHasNoEffect ==
  [][out'.status = 429 =>
       /\ streamingTokens' = streamingTokens
       /\ minted' = minted
       /\ uuidCount' = uuidCount
       /\ MediaViewLog' = MediaViewLog
       /\ redis' = redis
       /\ AdminUser' = AdminUser
       /\ MediaAsset' = MediaAsset
       /\ req' = req]_vars

\* a view request is refused while the log has a row, the cache an entry and
\* the table an account, after the other two limiters have refused as well
C36_Witness ==
  /\ out.kind = "view" /\ out.status = 429
  /\ MediaViewLog # <<>>
  /\ \E k \in MediaIds : redis[k] # None
  /\ \E m \in Emails : AdminUser[m] # None
  /\ authHits["a"] # None /\ authHits["a"].count > AuthMax
  /\ generalHits["a"] # None /\ generalHits["a"].count > GeneralMax

\* C37: no step of an analytics read or of a redeem changes the view log, and
\* no step of an analytics read or of a view request changes the token
\* registry; the view log changes only by the INSERT of a view request or of a
\* mint, which appends one row of its object, and a request that has made its
\* INSERT is answered with success, as is no view request or mint without one
C37_OnlyWritersAppend ==
  [][/\ \A h \in Handlers :
          LET kind == IF req' = req THEN out'.kind
                      ELSE IF req'[h] = req[h] THEN "idle"
                      ELSE IF req[h].kind # "idle" THEN req[h].kind
                      ELSE req'[h].kind
          IN /\ kind \in {"analytics", "stream"} => MediaViewLog' = MediaViewLog
             /\ kind \in {"analytics", "view"} => streamingTokens' = streamingTokens
             /\ (req[h].pc \in {"view_invalidate", "mint_invalidate"}
                 /\ req'[h] # req[h]) =>
                   /\ req'[h].pc = IF req[h].kind = "view" THEN "view_respond"
                                   ELSE "mint_respond"
                   /\ req'[h].seq = req[h].seq
             /\ (req[h].pc \in {"view_respond", "mint_respond"}
                 /\ req'[h] # req[h]) =>
                   /\ req'[h].pc = "idle"
                   /\ out'.status = IF req[h].kind = "view" THEN 201 ELSE 200
             /\ (kind \in {"view", "mint"} /\ out'.status \in {200, 201}) =>
                   /\ out'.seq >= 1
                   /\ \E i \in RowsOf(MediaViewLog, out'.id) :
                        /\ Cardinality({j \in RowsOf(MediaViewLog, out'.id) : j <= i})
                             = out'.seq
                        /\ MediaViewLog[i].viewed_by_ip = out'.ip
     /\ MediaViewLog' # MediaViewLog =>
          \E h \in Handlers :
            /\ req[h].pc \in {"view_insert", "mint_insert"}
            /\ req'[h].pc = IF req[h].kind = "view" THEN "view_invalidate"
                            ELSE "mint_invalidate"
            /\ req'[h].seq = Cardinality(RowsOf(MediaViewLog, req[h].id)) + 1
            /\ MediaViewLog' = Append(MediaViewLog,
                                      [media_id |-> req[h].id,
                                       viewed_by_ip |-> req[h].ip,
                                       timestamp |-> now])]_vars

\* a redeem has been served and an analytics read is about to store its
\* snapshot, and the log holds the row of one mint and nothing else
C37_Witness ==
  /\ out.kind = "stream" /\ out.status = 200
  /\ \E h \in Handlers : req[h].pc = "an_store"
  /\ Len(MediaViewLog) = 1
  /\ Len(minted) = 1

\* C38: a step of a view request, a mint or an analytics read of object X
\* leaves the cache entry of every other object as it was, and an analytics
\* read of X that is answered from the cache returns the entry of X
C38_CachePerObject ==
  [][\A h \in Handlers :
       LET r == IF req' = req THEN out'
                ELSE IF req[h].kind # "idle" THEN req[h]
                ELSE req'[h]
           acts == IF req' = req THEN out'.kind # "idle" ELSE req'[h] # req[h]
       IN (acts /\ r.kind \in {"view", "mint", "analytics"}) =>
            /\ \A y \in MediaIds \ {r.id} : redis'[y] = redis[y]
            /\ (req[h].pc = "an_cache" /\ req'[h].pc = "idle" /\ out'.cached) =>
                 /\ redis[r.id] # None
                 /\ out'.data = redis[r.id].data
            /\ (req[h].pc = "an_store" /\ req'[h] # req[h]) =>
                 /\ redis'[r.id] # None
                 /\ redis'[r.id].data = req[h].data]_vars

\* a view of one object has been answered after its invalidation removed the
\* entry of that object, and the cache still holds the entry of another object
C38_Witness ==
  /\ out.kind = "view" /\ out.status = 201
  /\ out.del = 1
  /\ redis[out.id] = None
  /\ \E y \in MediaIds \ {out.id} : redis[y] # None

====
